---- MODULE Spec2Model ----
(***************************************************************************)
(* Model of the chart query service (src/main.py): three read-only GET     *)
(* handlers over the tables chart_weeks and chart_entries.  One request is *)
(* followed through its handler: the call (selector checks), _get_conn,    *)
(* the week query, the entries query and the shaping of the response.      *)
(***************************************************************************)
EXTENDS Integers, Sequences, FiniteSets, TLC

\* ------------------------------------------------------------------ bounds
MaxWeeks == 3      \* stored chart_weeks rows
MaxEntries == 3    \* chart_entries rows of one week
MaxTop == 2        \* largest `top` tried
MaxLimit == 2      \* largest `limit` tried
MaxOffset == 2     \* largest `offset` tried

\* ------------------------------------------------- declared parameter ranges
YearMin == 1955
YearMax == 2019
MonthMax == 12
WeekInMonthMax == 6
TopMax == 100
LimitMax == 200

\* --------------------------------------------------------------- calendar
IsLeap(y) == (y % 4 = 0 /\ y % 100 # 0) \/ y % 400 = 0

DaysInMonth(y, m) ==
  IF m = 2 THEN (IF IsLeap(y) THEN 29 ELSE 28)
  ELSE IF m \in {4, 6, 9, 11} THEN 30 ELSE 31

\* The calendar dates the model knows, as <<year, month, day>>.
CalendarDates ==
  {dt \in ({1985, 1986} \X (1..12) \X (1..31)) : dt[3] <= DaysInMonth(dt[1], dt[2])}

\* Day number of a date (days since 1970-01-01), proleptic Gregorian.
DayNum(dt) ==
  LET y   == IF dt[2] <= 2 THEN dt[1] - 1 ELSE dt[1]
      era == y \div 400
      yoe == y - era * 400
      mp  == IF dt[2] > 2 THEN dt[2] - 3 ELSE dt[2] + 9
      doy == (153 * mp + 2) \div 5 + dt[3] - 1
      doe == yoe * 365 + yoe \div 4 - yoe \div 100 + doy
  IN  era * 146097 + doe - 719468

Abs(n) == IF n < 0 THEN 0 - n ELSE n

\* ---------------------------------------------------------------- strings
Digits == <<"0", "1", "2", "3", "4", "5", "6", "7", "8", "9">>

RECURSIVE Str(_)
\* str(n) of a natural number, as an f-string renders it.
Str(n) == IF n < 10 THEN Digits[n + 1] ELSE Str(n \div 10) \o Digits[(n % 10) + 1]

RECURSIVE Pad(_, _)
\* n in decimal, zero-padded on the left to width w.
Pad(n, w) == IF w <= 1 THEN Str(n)
             ELSE IF Len(Str(n)) >= w THEN Str(n)
             ELSE "0" \o Pad(n, w - 1)

\* datetime.date.isoformat(): YYYY-MM-DD.
isoformat(dt) == Pad(dt[1], 4) \o "-" \o Pad(dt[2], 2) \o "-" \o Pad(dt[3], 2)

IsoTable == [dt \in CalendarDates |-> isoformat(dt)]

\* Text the database's date input accepts although it is not YYYY-MM-DD.
LooseDateText == "March 9, 1985"

\* %s::date : the set holding the date a text casts to, empty when the cast
\* raises (the statement then fails).
to_date(s) ==
  IF s = LooseDateText THEN {<<1985, 3, 9>>}
  ELSE {dt \in CalendarDates : IsoTable[dt] = s}


\* ------------------------------------------------------------- the tables
\* Rows the table chart_weeks may hold: id, year, week_end_date.  The ids do
\* not follow the dates, and one row lies in March of another year.
WeekRows ==
  { [id |-> 1, year |-> 1985, week_end_date |-> <<1985, 3, 9>>],
    [id |-> 2, year |-> 1985, week_end_date |-> <<1985, 3, 2>>],
    [id |-> 3, year |-> 1985, week_end_date |-> <<1985, 3, 16>>],
    [id |-> 4, year |-> 1985, week_end_date |-> <<1985, 2, 23>>],
    [id |-> 5, year |-> 1986, week_end_date |-> <<1986, 3, 1>>] }

\* A month with a chart every fourth day, n of them, all of year 1985: the
\* table does not bound the rows of a month, and week_in_month goes up to 6.
\* The ids run against the dates.
DenseMonth(n) ==
  { [id |-> 20 - i, year |-> 1985, week_end_date |-> <<1985, 3, 4 * i - 2>>] : i \in 1..n }

\* The tables tried: every table of at most MaxWeeks of the WeekRows, and the
\* dense month of more rows than that, beside a week of another month and a
\* week of the same month of another year.
WeekTables ==
  {W \in SUBSET WeekRows : Cardinality(W) <= MaxWeeks}
  \cup { DenseMonth(n) \cup {w \in WeekRows : w.id \in {4, 5}}
         : n \in (MaxWeeks + 1)..WeekInMonthMax }

\* The positions of a week's entries: a ranking that starts at 1 and may
\* skip ranks (1, 2, 4, 6, ...).
Position(i) == IF i <= 2 THEN i ELSE 2 * (i - 1)

\* Rows of chart_entries of the week with the given id; the number of rows
\* differs from week to week, and some weeks have none.
EntryRows(week_id) ==
  { [chart_week_id |-> week_id,
     position      |-> Position(i),
     artist        |-> "artist " \o Str(week_id) \o "/" \o Str(Position(i)),
     song_title    |-> "song " \o Str(week_id) \o "/" \o Str(Position(i))]
    : i \in 1..((week_id + 1) % (MaxEntries + 1)) }

\* ------------------------------------------------------------ SQL building
Min(a, b) == IF a < b THEN a ELSE b

RECURSIVE Orderings(_, _)
\* ORDER BY: every sequence of the rows in ascending order of key[row]; rows
\* of equal key come in any order.
Orderings(rows, key) ==
  IF rows = {} THEN {<<>>}
  ELSE UNION { {<<r>> \o t : t \in Orderings(rows \ {r}, key)}
               : r \in {r \in rows : \A q \in rows : key[r] <= key[q]} }

\* OFFSET o LIMIT l of an ordered result.
OffsetLimit(s, o, l) == SubSeq(s, o + 1, Min(Len(s), o + l))

\* A statement's outcomes: [ok |-> TRUE, rows |-> <<...>>], or ok = FALSE
\* when the database raises.
Rows(s) == [ok |-> TRUE, rows |-> s]
Raises(text) == [ok |-> FALSE, text |-> text]

\* The text of the errors the driver raises.
ConnectErrorText == "connection failed"
QueryErrorText == "query failed"
DateErrorText == "invalid input syntax for type date"

\* Variant: the weeks are ordered oldest first.
list_weeks_sql_asc(weeks, year, limit, offset) ==
  LET match == {w \in weeks : w.year = year}
      key   == [w \in match |-> DayNum(w.week_end_date)]
  IN  {Rows(OffsetLimit(s, offset, limit)) : s \in Orderings(match, key)}

\* list_weeks: where year = %s order by week_end_date desc limit %s offset %s
list_weeks_sql(weeks, year, limit, offset) ==
  LET match == {w \in weeks : w.year = year}
      key   == [w \in match |-> 0 - DayNum(w.week_end_date)]
  IN  {Rows(OffsetLimit(s, offset, limit)) : s \in Orderings(match, key)}

\* get_week: where week_end_date = %s::date limit 1
week_sql(weeks, week_end_date) ==
  IF to_date(week_end_date) = {} THEN {Raises(DateErrorText)}
  ELSE LET match == {w \in weeks : w.week_end_date \in to_date(week_end_date)}
           key   == [w \in match |-> 0]
       IN  {Rows(OffsetLimit(s, 0, 1)) : s \in Orderings(match, key)}

\* Variant: the difference is ordered without abs().
resolve_by_date_sql_signed(weeks, target_date) ==
  IF to_date(target_date) = {} THEN {Raises(DateErrorText)}
  ELSE LET t   == CHOOSE dt \in to_date(target_date) : TRUE
           key == [w \in weeks |-> DayNum(w.week_end_date) - DayNum(t)]
       IN  {Rows(OffsetLimit(s, 0, 1)) : s \in Orderings(weeks, key)}

\* resolve: order by abs(week_end_date - %s::date) asc limit 1
resolve_by_date_sql(weeks, target_date) ==
  IF to_date(target_date) = {} THEN {Raises(DateErrorText)}
  ELSE LET t   == CHOOSE dt \in to_date(target_date) : TRUE
           key == [w \in weeks |-> Abs(DayNum(w.week_end_date) - DayNum(t))]
       IN  {Rows(OffsetLimit(s, 0, 1)) : s \in Orderings(weeks, key)}

\* Variant: the year is not part of the where clause.
resolve_by_week_in_month_sql_any_year(weeks, year, month, offset) ==
  LET match == {w \in weeks : w.week_end_date[2] = month}
      key   == [w \in match |-> DayNum(w.week_end_date)]
  IN  {Rows(OffsetLimit(s, offset, 1)) : s \in Orderings(match, key)}

\* resolve: where year = %s and extract(month from week_end_date) = %s
\*          order by week_end_date asc offset %s limit 1
resolve_by_week_in_month_sql(weeks, year, month, offset) ==
  LET match == {w \in weeks : w.year = year /\ w.week_end_date[2] = month}
      key   == [w \in match |-> DayNum(w.week_end_date)]
  IN  {Rows(OffsetLimit(s, offset, 1)) : s \in Orderings(match, key)}

\* Variant: the entries are not restricted to the week.
entries_sql_any_week(entries, week_id, top) ==
  LET key == [e \in entries |-> e.position]
  IN  {Rows(OffsetLimit(s, 0, top)) : s \in Orderings(entries, key)}

\* where chart_week_id = %s order by position asc limit %s
entries_sql(entries, week_id, top) ==
  LET match == {e \in entries : e.chart_week_id = week_id}
      key   == [e \in match |-> e.position]
  IN  {Rows(OffsetLimit(s, 0, top)) : s \in Orderings(match, key)}

\* cur.fetchone(): <<>> for None, else the first row in a 1-tuple.
fetchone(rows) == IF rows = <<>> THEN <<>> ELSE <<rows[1]>>


\* ------------------------------------------------------ response shaping
\* An Optional parameter: <<>> is None, <<v>> carries v.
None == <<>>
Some(v) == <<v>>

\* Python truth of an Optional[int] or Optional[str].
truthy_int(x) == x # None /\ x[1] # 0
truthy_str(x) == x # None /\ x[1] # ""

NoBody == [kind |-> "none"]

\* raise HTTPException(status_code, detail)
HTTPException(status, detail) == [type |-> "HTTPException", status |-> status, detail |-> detail]
\* any other exception, with str(e)
OtherException(text) == [type |-> "Exception", text |-> text]

\* Variant: no `except HTTPException: raise` before `except Exception`.
handle_exception_all(exc) ==
  [status |-> 500,
   detail |-> "DB error: " \o (IF exc.type = "HTTPException" THEN exc.detail ELSE exc.text),
   body |-> NoBody]

\* get_week / resolve_chart_week: except HTTPException: raise
\*                                except Exception as e: raise HTTPException(500, f"DB error: {e}")
handle_exception(exc) ==
  IF exc.type = "HTTPException"
  THEN [status |-> exc.status, detail |-> exc.detail, body |-> NoBody]
  ELSE [status |-> 500, detail |-> "DB error: " \o exc.text, body |-> NoBody]

\* Variant: the connection is closed on return only.
with_exit_leak(c, raised) == IF raised THEN c ELSE "closed"

\* The connection after the with block is left, by return or by exception.
with_exit(c, raised) == "closed"

week_json(w) == [id |-> w.id, year |-> w.year, week_end_date |-> isoformat(w.week_end_date)]

entry_json(e) == [position |-> e.position, artist |-> e.artist, song_title |-> e.song_title]

entries_json(rows) == [i \in 1..Len(rows) |-> entry_json(rows[i])]

list_weeks_response(rows) ==
  [status |-> 200, detail |-> "",
   body |-> [kind |-> "weeks", rows |-> [i \in 1..Len(rows) |-> week_json(rows[i])]]]

get_week_response(w, rows) ==
  [status |-> 200, detail |-> "",
   body |-> [kind |-> "week", week |-> week_json(w), entries |-> entries_json(rows)]]

\* Variant: the table of suffixes misses 3.
suffix_no_rd(week_in_month) ==
  IF week_in_month \in {1, 2} THEN <<"st", "nd">>[week_in_month] ELSE "th"

suffix(week_in_month) ==
  IF week_in_month \in {1, 2, 3} THEN <<"st", "nd", "rd">>[week_in_month] ELSE "th"

resolution_note(target_date, year, month, week_in_month, wed_str) ==
  IF truthy_str(target_date)
  THEN "Closest chart week to " \o target_date[1] \o " (week ending " \o wed_str \o ")"
  ELSE Str(week_in_month[1]) \o suffix(week_in_month[1]) \o " chart week of "
       \o Str(month[1]) \o "/" \o Str(year[1]) \o " (week ending " \o wed_str \o ")"

resolved_from(target_date, year, month, week_in_month) ==
  IF truthy_str(target_date)
  THEN [target_date |-> target_date[1]]
  ELSE [year |-> year[1], month |-> month[1], week_in_month |-> week_in_month[1]]

resolve_response(r, w, rows) ==
  [status |-> 200, detail |-> "",
   body |-> [kind            |-> "resolve",
             resolved_from   |-> resolved_from(r.target_date, r.year, r.month, r.week_in_month),
             resolution_note |-> resolution_note(r.target_date, r.year, r.month, r.week_in_month,
                                                 isoformat(w.week_end_date)),
             week            |-> week_json(w),
             entries         |-> entries_json(rows)]]

\* The selector checks at the head of resolve_chart_week: the exception they
\* raise, in a 1-tuple, or <<>> when the request goes on.
selector_check(target_date, year, month, week_in_month) ==
  IF ~truthy_str(target_date)
     /\ ~(truthy_int(year) /\ truthy_int(month) /\ truthy_int(week_in_month))
  THEN <<HTTPException(400, "Provide either target_date=YYYY-MM-DD OR year+month+week_in_month")>>
  ELSE IF truthy_str(target_date)
          /\ (truthy_int(year) \/ truthy_int(month) \/ truthy_int(week_in_month))
  THEN <<HTTPException(400, "Use only one mode: target_date OR year+month+week_in_month")>>
  ELSE <<>>

\* ------------------------------------------------------------------ inputs
\* Texts tried as week_end_date and target_date.
DateTexts ==
  { "1985-03-02", "1985-03-05", "1985-02-27", "1986-02-01",
    "", "not-a-date", "1985-02-30", LooseDateText }

YearInputs == {1985, 1986}
MonthInputs == {2, 3}

\* -------------------------------------------------------------------- state
VARIABLES
  DB_URL,         \* TRUE when SUPABASE_DB_URL is set
  chart_weeks,    \* table public.chart_weeks
  chart_entries,  \* table public.chart_entries
  pc,             \* "idle", "connect", "week_query", "entries_query", "done"
  req,            \* the request being served
  conn,           \* "none", "open", "closed"
  acquired,       \* connections opened by this request
  executed,       \* statements executed by this request
  week,           \* the handler's local `week`: <<>> or <<row>>
  fault,          \* TRUE once an exception other than HTTPException was raised
  response        \* the response of the request, status 0 while none

vars == <<DB_URL, chart_weeks, chart_entries, pc, req, conn, acquired, executed, week, fault,
          response>>

NoRequest ==
  [op |-> "none", year |-> None, month |-> None, week_in_month |-> None,
   target_date |-> None, week_end_date |-> "", top |-> 0, limit |-> 0, offset |-> 0]

NoResponse == [status |-> 0, detail |-> "", body |-> NoBody]

Init ==
  /\ DB_URL \in BOOLEAN
  /\ chart_weeks \in WeekTables
  /\ chart_entries = UNION {EntryRows(w.id) : w \in chart_weeks}
  /\ pc = "idle"
  /\ req = NoRequest
  /\ conn = "none"
  /\ acquired = 0
  /\ executed = 0
  /\ week = <<>>
  /\ fault = FALSE
  /\ response = NoResponse

\* A request starts: the handler's locals and the request's counters are fresh.
Begin(r) ==
  /\ pc = "idle"
  /\ req' = r
  /\ conn' = "none"
  /\ acquired' = 0
  /\ executed' = 0
  /\ week' = <<>>
  /\ UNCHANGED <<DB_URL, chart_weeks, chart_entries>>

\* The request goes on to the next step.
Continue(next) ==
  /\ pc' = next
  /\ UNCHANGED <<response, fault>>

\* The request returns a payload.
Return(resp) ==
  /\ response' = resp
  /\ pc' = "done"
  /\ UNCHANGED fault

\* An HTTPException raised before the try block goes to the caller as it is.
Raise(exc) ==
  /\ response' = [status |-> exc.status, detail |-> exc.detail, body |-> NoBody]
  /\ pc' = "done"
  /\ UNCHANGED fault

\* The request ends with an exception raised inside the try block.
Fail(exc) ==
  /\ response' = handle_exception(exc)
  /\ fault' = (exc.type # "HTTPException")
  /\ pc' = "done"

\* GET /charts/weeks
list_weeks(year, limit, offset) ==
  /\ year \in YearMin..YearMax
  /\ limit \in 1..LimitMax
  /\ offset >= 0
  /\ Begin([NoRequest EXCEPT !.op = "list_weeks", !.year = Some(year),
                             !.limit = limit, !.offset = offset])
  /\ Continue("connect")

\* GET /charts/week
get_week(week_end_date, top) ==
  /\ top \in 1..TopMax
  /\ Begin([NoRequest EXCEPT !.op = "get_week", !.week_end_date = week_end_date, !.top = top])
  /\ Continue("connect")

\* GET /charts/resolve, up to the try block
resolve_chart_week(target_date, year, month, week_in_month, top) ==
  /\ year # None => year[1] \in YearMin..YearMax
  /\ month # None => month[1] \in 1..MonthMax
  /\ week_in_month # None => week_in_month[1] \in 1..WeekInMonthMax
  /\ top \in 1..TopMax
  /\ Begin([NoRequest EXCEPT !.op = "resolve", !.target_date = target_date, !.year = year,
                             !.month = month, !.week_in_month = week_in_month, !.top = top])
  /\ LET exc == selector_check(target_date, year, month, week_in_month)
     IN  IF exc # <<>>
         THEN Raise(exc[1])
         ELSE Continue("connect")

\* The head of the with statement: _get_conn(), then conn.cursor().  When
\* cursor() raises, the connection is already entered and is left again.
get_conn ==
  /\ pc = "connect"
  /\ UNCHANGED <<DB_URL, chart_weeks, chart_entries, req, executed, week>>
  /\ IF ~DB_URL
     THEN /\ Fail(OtherException("Missing SUPABASE_DB_URL env var"))
          /\ UNCHANGED <<conn, acquired>>
     ELSE \E outcome \in {"open", "connect fails", "cursor fails"} :
            CASE outcome = "open" ->
                   /\ conn' = "open"
                   /\ acquired' = acquired + 1
                   /\ Continue("week_query")
              [] outcome = "connect fails" ->
                   /\ Fail(OtherException(ConnectErrorText))
                   /\ UNCHANGED <<conn, acquired>>
              [] OTHER ->
                   /\ acquired' = acquired + 1
                   /\ conn' = with_exit("open", TRUE)
                   /\ Fail(OtherException(QueryErrorText))

\* A statement sent on the open connection: one of its outcomes, or a failure
\* of the database while it runs.
Outcomes(results) == results \cup {Raises(QueryErrorText)}

\* The with block is left by an exception.
Abort(exc) ==
  /\ conn' = with_exit(conn, TRUE)
  /\ Fail(exc)
  /\ UNCHANGED week

\* list_weeks: cur.execute(sql), fetchall, leave the with block, return
list_weeks_query ==
  /\ pc = "week_query"
  /\ req.op = "list_weeks"
  /\ executed' = executed + 1
  /\ UNCHANGED <<DB_URL, chart_weeks, chart_entries, req, acquired>>
  /\ \E res \in Outcomes(list_weeks_sql(chart_weeks, req.year[1], req.limit, req.offset)) :
       IF ~res.ok
       THEN Abort(OtherException(res.text))
       ELSE /\ conn' = with_exit(conn, FALSE)
            /\ Return(list_weeks_response(res.rows))
            /\ UNCHANGED week

\* The statement that selects the week of a get_week or resolve request.
week_statement(r, weeks) ==
  IF r.op = "get_week" THEN week_sql(weeks, r.week_end_date)
  ELSE IF truthy_str(r.target_date) THEN resolve_by_date_sql(weeks, r.target_date[1])
  ELSE resolve_by_week_in_month_sql(weeks, r.year[1], r.month[1], r.week_in_month[1] - 1)

\* Variant: one detail text for both handlers.
not_found_same(r) == HTTPException(404, "Week not found")

not_found(r) ==
  IF r.op = "get_week"
  THEN HTTPException(404, "Week not found")
  ELSE HTTPException(404, "No chart week found for that input")

\* get_week / resolve_chart_week: execute the week statement, fetchone,
\* raise 404 when there is no row
fetch_week ==
  /\ pc = "week_query"
  /\ req.op \in {"get_week", "resolve"}
  /\ executed' = executed + 1
  /\ UNCHANGED <<DB_URL, chart_weeks, chart_entries, req, acquired>>
  /\ \E res \in Outcomes(week_statement(req, chart_weeks)) :
       IF ~res.ok
       THEN Abort(OtherException(res.text))
       ELSE IF fetchone(res.rows) = <<>>
       THEN Abort(not_found(req))
       ELSE /\ week' = fetchone(res.rows)
            /\ Continue("entries_query")
            /\ UNCHANGED conn

\* get_week / resolve_chart_week: execute entries_sql, fetchall, leave the
\* with block, shape and return the payload
fetch_entries ==
  /\ pc = "entries_query"
  /\ executed' = executed + 1
  /\ UNCHANGED <<DB_URL, chart_weeks, chart_entries, req, acquired>>
  /\ \E res \in Outcomes(entries_sql(chart_entries, week[1].id, req.top)) :
       IF ~res.ok
       THEN Abort(OtherException(res.text))
       ELSE /\ conn' = with_exit(conn, FALSE)
            /\ Return(IF req.op = "get_week"
                      THEN get_week_response(week[1], res.rows)
                      ELSE resolve_response(req, week[1], res.rows))
            /\ UNCHANGED week

\* The application sends the response of the finished request and waits for
\* the next one; nothing of a request outlives it.
send_response ==
  /\ pc = "done"
  /\ pc' = "idle"
  /\ req' = NoRequest
  /\ response' = NoResponse
  /\ conn' = "none"
  /\ acquired' = 0
  /\ executed' = 0
  /\ week' = <<>>
  /\ fault' = FALSE
  /\ UNCHANGED <<DB_URL, chart_weeks, chart_entries>>

OptYear == {None} \cup {Some(y) : y \in YearInputs}
OptMonth == {None} \cup {Some(m) : m \in MonthInputs}
OptWeekInMonth == {None} \cup {Some(k) : k \in 1..WeekInMonthMax}
OptDate == {None} \cup {Some(s) : s \in DateTexts}

Next ==
  \/ \E y \in YearInputs, l \in 1..MaxLimit, o \in 0..MaxOffset : list_weeks(y, l, o)
  \/ \E d \in DateTexts, t \in 1..MaxTop : get_week(d, t)
  \/ \E d \in OptDate, y \in OptYear, m \in OptMonth, k \in OptWeekInMonth, t \in 1..MaxTop :
       resolve_chart_week(d, y, m, k, t)
  \/ get_conn
  \/ list_weeks_query
  \/ fetch_week
  \/ fetch_entries
  \/ send_response

Spec == Init /\ [][Next]_vars

TypeOK ==
  /\ pc \in {"idle", "connect", "week_query", "entries_query", "done"}
  /\ conn \in {"none", "open", "closed"}
  /\ response.status \in {0, 200, 400, 404, 500}
  /\ fault \in BOOLEAN


\* ================================================================= claims
Done == pc = "done"
InFlight == pc # "idle"

\* The date a text denotes, when it denotes one.
Castable(text) == to_date(text) # {}
DateOf(text) == CHOOSE dt \in to_date(text) : TRUE

\* Selectors as supplied (present in the query string), whatever their value.
Supplied(x) == x # None
ModeA(r) == Supplied(r.target_date) /\ ~Supplied(r.year) /\ ~Supplied(r.month)
            /\ ~Supplied(r.week_in_month)
ModeB(r) == ~Supplied(r.target_date) /\ Supplied(r.year) /\ Supplied(r.month)
            /\ Supplied(r.week_in_month)

\* The mode the handler runs in once the selector checks are passed.
RunsModeA(r) ==
  /\ r.op = "resolve" /\ truthy_str(r.target_date)
  /\ ~Supplied(r.year) /\ ~Supplied(r.month) /\ ~Supplied(r.week_in_month)
RunsModeB(r) ==
  /\ r.op = "resolve" /\ ~truthy_str(r.target_date)
  /\ Supplied(r.year) /\ Supplied(r.month) /\ Supplied(r.week_in_month)

Distance(w, t) == Abs(DayNum(w.week_end_date) - DayNum(t))

\* The stored row a week object of a response stands for.
IsWeekOf(json, w) ==
  /\ json.id = w.id
  /\ json.year = w.year
  /\ json.week_end_date = isoformat(w.week_end_date)

\* The entries of a response are the `top` lowest-ranked rows of the week
\* with the given id, in strictly ascending order of position.
EntriesOf(list, week_id, top) ==
  LET mine == {e \in chart_entries : e.chart_week_id = week_id}
  IN  /\ Len(list) = Min(top, Cardinality(mine))
      /\ \A i \in 1..Len(list) :
           \E e \in mine :
             /\ list[i] = [position |-> e.position, artist |-> e.artist,
                           song_title |-> e.song_title]
             /\ Cardinality({f \in mine : f.position < e.position}) = i - 1
      /\ \A i \in 1..(Len(list) - 1) : list[i].position < list[i + 1].position

\* C1: a resolve request that supplies target_date together with any of year,
\* month, week_in_month, or that supplies neither mode, ends with status 400
\* with no connection acquired and no statement executed.
C1_SelectorModes ==
  (InFlight /\ req.op = "resolve" /\ ~ModeA(req) /\ ~ModeB(req))
    => (Done /\ response.status = 400 /\ acquired = 0 /\ executed = 0)

\* C2: in Mode A with target date T, when a week is stored the request that
\* meets no failure returns a stored week whose distance in days to T is
\* minimal over all stored weeks; when T is a stored week_end_date, that week
\* is the one returned.
C2_NearestWeek ==
  (Done /\ RunsModeA(req) /\ Castable(req.target_date[1]) /\ ~fault /\ chart_weeks # {})
    => LET t == DateOf(req.target_date[1])
       IN  /\ response.status = 200
           /\ \E w \in chart_weeks :
                /\ IsWeekOf(response.body.week, w)
                /\ \A q \in chart_weeks : Distance(w, t) <= Distance(q, t)
           /\ (\E q \in chart_weeks : q.week_end_date = t)
                => response.body.week.week_end_date = isoformat(t)

\* Reached: Mode A answered with a week that is not at distance zero, chosen
\* among stored weeks at different distances on both sides of a month's end.
C2_Witness ==
  /\ Done /\ RunsModeA(req) /\ response.status = 200
  /\ req.target_date[1] = "1985-02-27"
  /\ response.body.week.week_end_date = "1985-03-02"
  /\ \E q \in chart_weeks : q.week_end_date = <<1985, 2, 23>>

\* C3: in Mode B with index k, a request that meets no failure returns the
\* k-th earliest of the stored weeks of that year column and calendar month,
\* and status 404 when there are fewer than k of them.
C3_KthWeekInMonth ==
  (Done /\ RunsModeB(req) /\ ~fault)
    => LET match == {w \in chart_weeks : w.year = req.year[1]
                                         /\ w.week_end_date[2] = req.month[1]}
           k     == req.week_in_month[1]
       IN  IF k <= Cardinality(match)
           THEN /\ response.status = 200
                /\ \E w \in match :
                     /\ IsWeekOf(response.body.week, w)
                     /\ Cardinality({q \in match :
                                       DayNum(q.week_end_date) < DayNum(w.week_end_date)}) = k - 1
           ELSE response.status = 404 /\ response.body = NoBody

\* Reached: the second of three weeks of a month is returned.
C3_Witness ==
  /\ Done /\ RunsModeB(req) /\ response.status = 200
  /\ req.week_in_month[1] = 2
  /\ response.body.week.week_end_date = "1985-03-09"
  /\ Cardinality({w \in chart_weeks : w.year = 1985 /\ w.week_end_date[2] = 3}) = 3

\* Reached: an index past the last week of the month ends in 404.
C3_WitnessNotFound ==
  /\ Done /\ RunsModeB(req) /\ response.status = 404
  /\ \E w \in chart_weeks : w.year = req.year[1] /\ w.week_end_date[2] = req.month[1]

\* C4: list_weeks that meets no failure returns status 200 with exactly the
\* stored weeks of the year, latest week_end_date first, without the first
\* `offset` of them and at most `limit` long; the list is empty when none is
\* left.
C4_ListWeeks ==
  (Done /\ req.op = "list_weeks" /\ ~fault)
    => LET match == {w \in chart_weeks : w.year = req.year[1]}
           left  == Cardinality(match) - req.offset
           rows  == response.body.rows
       IN  /\ response.status = 200
           /\ response.body.kind = "weeks"
           /\ Len(rows) = (IF left <= 0 THEN 0 ELSE Min(req.limit, left))
           /\ \A i \in 1..Len(rows) :
                \E w \in match :
                  /\ IsWeekOf(rows[i], w)
                  /\ Cardinality({q \in match :
                                    DayNum(q.week_end_date) > DayNum(w.week_end_date)})
                       = req.offset + i - 1

\* Reached: a list cut at both ends by offset and limit.
C4_Witness ==
  /\ Done /\ req.op = "list_weeks" /\ response.status = 200
  /\ req.offset = 1 /\ req.limit = 1
  /\ Len(response.body.rows) = 1
  /\ Cardinality({w \in chart_weeks : w.year = req.year[1]}) = 3

\* Reached: an offset past the end gives the empty list.
C4_WitnessEmpty ==
  /\ Done /\ req.op = "list_weeks" /\ response.status = 200
  /\ response.body.rows = <<>>
  /\ \E w \in chart_weeks : w.year = req.year[1]

\* C5: get_week for a date D that meets no failure returns the stored week
\* whose week_end_date is D with the `top` lowest-ranked entries of that week
\* and of no other, strictly ascending by position; when no stored week has
\* week_end_date D it ends in 404 with no week object.
C5_GetWeek ==
  (Done /\ req.op = "get_week" /\ Castable(req.week_end_date) /\ ~fault)
    => LET d == DateOf(req.week_end_date)
       IN  IF \E w \in chart_weeks : w.week_end_date = d
           THEN /\ response.status = 200
                /\ response.body.kind = "week"
                /\ \E w \in chart_weeks :
                     /\ w.week_end_date = d
                     /\ IsWeekOf(response.body.week, w)
                     /\ EntriesOf(response.body.entries, w.id, req.top)
           ELSE response.status = 404 /\ response.body = NoBody

\* Reached: a week with more entries than `top`, among other weeks that have
\* entries too.
C5_Witness ==
  /\ Done /\ req.op = "get_week" /\ response.status = 200
  /\ Len(response.body.entries) = req.top
  /\ req.top >= 2
  /\ Cardinality({e \in chart_entries : e.chart_week_id = response.body.week.id}) > req.top
  /\ \E e \in chart_entries : e.chart_week_id # response.body.week.id

\* Reached: no week at the date asked for.
C5_WitnessNotFound ==
  /\ Done /\ req.op = "get_week" /\ response.status = 404 /\ chart_weeks # {}

\* C6: a request acquires at most one connection, the connection is open
\* only while the request is inside its with block, and a finished request
\* holds none.
C6_ConnectionReleased ==
  /\ acquired <= 1
  /\ conn = "open" => (acquired = 1 /\ pc \in {"week_query", "entries_query"})
  /\ Done => conn = (IF acquired = 1 THEN "closed" ELSE "none")

\* Reached: the entries statement failed after the week was found, and the
\* connection is closed.
C6_Witness ==
  /\ Done /\ executed = 2 /\ fault /\ conn = "closed" /\ acquired = 1

\* Reached: 404 raised inside the with block, connection closed.
C6_WitnessNotFound ==
  /\ Done /\ response.status = 404 /\ conn = "closed"

\* C7: a finished request carries either a complete payload of its endpoint
\* (status 200) or an error with a detail text and no data; every exception
\* other than HTTPException raised in the try block (missing configuration,
\* connection or statement failure) gives 500, also after the week was found;
\* the 404 raised in the same block stays 404.
C7_NoPartialResults ==
  Done =>
    /\ \/ /\ response.status = 200
          /\ response.detail = ""
          /\ response.body.kind = (CASE req.op = "list_weeks" -> "weeks"
                                     [] req.op = "get_week"   -> "week"
                                     [] OTHER                 -> "resolve")
       \/ /\ response.status \in {400, 404, 500}
          /\ response.detail # ""
          /\ response.body = NoBody
    /\ fault <=> response.status = 500
    /\ (~fault /\ executed = 1 /\ req.op # "list_weeks") => response.status = 404
    /\ (~fault /\ executed = 2) => (response.status = 200 /\ week # <<>>)

\* Reached: week found, entries statement failed, 500 without data.
C7_Witness ==
  /\ Done /\ executed = 2 /\ week # <<>> /\ fault
  /\ response.status = 500 /\ response.body = NoBody

\* Reached: 404 raised inside the try block and passed through.
C7_WitnessNotFound ==
  /\ Done /\ executed = 1 /\ ~fault /\ response.status = 404

\* A text in the form YYYY-MM-DD that names a calendar date.
IsIsoDate(text) == \E dt \in CalendarDates : isoformat(dt) = text

\* C8: a get_week request whose week_end_date, or a resolve request whose
\* target_date, is not an ISO date ends with a 4xx status with no connection
\* acquired and no statement executed.
C8_DatesValidated ==
  (InFlight /\ \/ req.op = "get_week" /\ ~IsIsoDate(req.week_end_date)
               \/ req.op = "resolve" /\ Supplied(req.target_date)
                  /\ ~IsIsoDate(req.target_date[1]))
    => (Done /\ response.status \in 400..499 /\ acquired = 0 /\ executed = 0)

\* The request is well formed and no stored week matches it.
NoMatch(r) ==
  CASE r.op = "get_week" ->
         /\ Castable(r.week_end_date)
         /\ ~\E w \in chart_weeks : w.week_end_date = DateOf(r.week_end_date)
    [] RunsModeA(r) -> Castable(r.target_date[1]) /\ chart_weeks = {}
    [] RunsModeB(r) ->
         Cardinality({w \in chart_weeks : w.year = r.year[1]
                                          /\ w.week_end_date[2] = r.month[1]})
           < r.week_in_month[1]
    [] OTHER -> FALSE

\* C9 as stated: every get_week or resolve request that finds no week ends in
\* 404 with the detail "No chart week found for that input".
C9_Original ==
  (Done /\ ~fault /\ response.status # 400 /\ NoMatch(req))
    => (response.status = 404 /\ response.detail = "No chart week found for that input")

\* C9 amended: such a request ends in 404; the detail is "No chart week found
\* for that input" for resolve and "Week not found" for get_week.
C9_NotFoundDetail ==
  (Done /\ ~fault /\ response.status # 400 /\ NoMatch(req))
    => /\ response.status = 404
       /\ response.detail = (IF req.op = "get_week" THEN "Week not found"
                             ELSE "No chart week found for that input")

\* Reached: resolve finds no week.
C9_Witness ==
  /\ Done /\ req.op = "resolve" /\ NoMatch(req) /\ response.status = 404

\* Reached: get_week finds no week.
C9_WitnessGetWeek ==
  /\ Done /\ req.op = "get_week" /\ NoMatch(req) /\ response.status = 404

Ordinals == <<"1st", "2nd", "3rd", "4th", "5th", "6th">>

\* C10: a successful resolve response carries, in Mode A, the note "Closest
\* chart week to {target_date} (week ending {week_end_date})" and
\* resolved_from = {target_date}; in Mode B the note "{k}{st|nd|rd|th} chart
\* week of {month}/{year} (week ending {week_end_date})" and resolved_from =
\* {year, month, week_in_month}; week_end_date is that of the week returned.
C10_ResolutionNote ==
  (Done /\ req.op = "resolve" /\ response.status = 200)
    => LET b   == response.body
           wed == b.week.week_end_date
       IN  IF Supplied(req.target_date) /\ ~Supplied(req.year)
           THEN /\ b.resolution_note = "Closest chart week to " \o req.target_date[1]
                                       \o " (week ending " \o wed \o ")"
                /\ b.resolved_from = [target_date |-> req.target_date[1]]
           ELSE /\ b.resolution_note = Ordinals[req.week_in_month[1]] \o " chart week of "
                                       \o Str(req.month[1]) \o "/" \o Str(req.year[1])
                                       \o " (week ending " \o wed \o ")"
                /\ b.resolved_from = [year |-> req.year[1], month |-> req.month[1],
                                      week_in_month |-> req.week_in_month[1]]

\* Reached: the sixth week of a month of six, with the suffix th.
C10_Witness ==
  /\ Done /\ req.op = "resolve" /\ response.status = 200
  /\ req.week_in_month = Some(6)
  /\ response.body.resolution_note = "6th chart week of 3/1985 (week ending 1985-03-22)"

\* Reached: the fourth and the fifth week, with the suffix th.
C10_WitnessFourth ==
  /\ Done /\ req.op = "resolve" /\ response.status = 200
  /\ response.body.resolution_note = "4th chart week of 3/1985 (week ending 1985-03-14)"

C10_WitnessFifth ==
  /\ Done /\ req.op = "resolve" /\ response.status = 200
  /\ response.body.resolution_note = "5th chart week of 3/1985 (week ending 1985-03-18)"

\* Reached: the third week of March 1985, with the suffix rd.
C10_WitnessThird ==
  /\ Done /\ req.op = "resolve" /\ response.status = 200
  /\ response.body.resolution_note = "3rd chart week of 3/1985 (week ending 1985-03-16)"

\* Reached: the first and the second week, with the suffixes st and nd.
C10_WitnessFirst ==
  /\ Done /\ req.op = "resolve" /\ response.status = 200
  /\ response.body.resolution_note = "1st chart week of 3/1985 (week ending 1985-03-02)"

C10_WitnessSecond ==
  /\ Done /\ req.op = "resolve" /\ response.status = 200
  /\ response.body.resolution_note = "2nd chart week of 3/1985 (week ending 1985-03-09)"

\* Reached: a Mode A note that echoes the target date as it was given.
C10_WitnessModeA ==
  /\ Done /\ req.op = "resolve" /\ response.status = 200
  /\ response.body.resolution_note = "Closest chart week to 1985-03-05 (week ending 1985-03-02)"

====
